---------------------------- MODULE Spec2Model ----------------------------
(***************************************************************************)
(* Model of src/tools/api.py: the rate-limit backoff request wrapper       *)
(* (_make_api_request) and the paginated, cached fetches built on it       *)
(* (get_insider_trades, get_company_news).                                 *)
(*                                                                         *)
(* Text values (tickers, dates, cache keys) are sequences of one-character *)
(* strings, so that Python's string comparison, min(), split("T") and      *)
(* f-string concatenation are computed rather than assumed.                *)
(***************************************************************************)
EXTENDS Integers, Sequences, FiniteSets, TLC

(***************************************************************************)
(* Bounds of the model.                                                    *)
(***************************************************************************)
\* Largest number of records the server puts in one page.
MaxPage == 2
\* Largest page-size cap (limit) a caller passes.
MaxLimit == 2
\* Largest number of Request Executor calls one paginated fetch may make.
MaxRequests == 2
\* Number of fetch calls the client makes one after another.
MaxCalls == 2
\* Largest max_retries passed to a direct _make_api_request call.
MaxRetriesArg == 4
\* Largest length of the stem of a ticker handed to _is_hk_stock.
MaxStem == 5
\* Number of callers that run the same paginated fetch at the same time.
MaxCallers == 2
\* Largest number of records a record-keeping server holds for the ticker.
MaxRecords == 3

(***************************************************************************)
(* Text: characters, ordering, the string operations the code uses.        *)
(***************************************************************************)
\* The characters that occur, in code-point order (Python compares str by
\* code point).
AsciiOrder ==
    << "-", "0", "1", "2", "3", "4", "5", "6", "7", "8", "9", ":",
       "A", "L", "P", "T", "_", "e", "n", "o" >>

Ord(c) == CHOOSE i \in 1..Len(AsciiOrder) : AsciiOrder[i] = c

\* Python's a <= b on str: lexicographic by code point, a proper prefix is
\* smaller.
StrLeq(a, b) ==
    LET n    == IF Len(a) < Len(b) THEN Len(a) ELSE Len(b)
        diff == {i \in 1..n : a[i] # b[i]}
    IN  IF diff = {}
        THEN Len(a) <= Len(b)
        ELSE LET i == CHOOSE j \in diff : \A k \in diff : j <= k
             IN  Ord(a[i]) < Ord(b[i])

\* Python's min() over a non-empty collection of str.
StrMin(S) == CHOOSE s \in S : \A t \in S : StrLeq(s, t)

\* Python's s.split("T")[0]: the text before the first "T", all of s when it
\* holds none.
SplitT(s) ==
    LET ts == {i \in 1..Len(s) : s[i] = "T"}
    IN  IF ts = {}
        THEN s
        ELSE SubSeq(s, 1, (CHOOSE j \in ts : \A k \in ts : j <= k) - 1)

Digits == << "0", "1", "2", "3", "4", "5", "6", "7", "8", "9" >>

\* Python's str(n) for n >= 0, as an f-string formats an int.
RECURSIVE IntToStr(_)
IntToStr(n) ==
    IF n < 10
    THEN << Digits[n + 1] >>
    ELSE IntToStr(n \div 10) \o << Digits[(n % 10) + 1] >>

\* Python's None; no text value equals it.
None == << "None" >>

\* Python truthiness of an optional str: None and "" are falsy.
Truthy(s) == s # None /\ s # << >>


Range(q) == {q[i] : i \in DOMAIN q}

(***************************************************************************)
(* Program constants.                                                      *)
(***************************************************************************)
StatusOK == 200
StatusRateLimited == 429
BackoffBase == 60
BackoffStep == 30
DefaultMaxRetries == 3

(***************************************************************************)
(* The values the client and the server draw from.                         *)
(***************************************************************************)
AAPL == << "A", "A", "P", "L" >>
D0101 == << "2", "0", "2", "4", "-", "0", "1", "-", "0", "1" >>
D0105 == << "2", "0", "2", "4", "-", "0", "1", "-", "0", "5" >>
D0120 == << "2", "0", "2", "4", "-", "0", "1", "-", "2", "0" >>
D0131 == << "2", "0", "2", "4", "-", "0", "1", "-", "3", "1" >>
\* A date-time value, as the API gives it for some records.
D0120T == D0120 \o << "T", "0", "9", ":", "3", "0", ":", "0", "0" >>
D0131T == D0131 \o << "T", "1", "6", ":", "0", "0", ":", "0", "0" >>

Tickers == { AAPL }
EndDates == { D0131 }
StartDates == { None, D0101, D0120 }
Limits == 1..MaxLimit
\* The values of the date field (filing_date, date) of the server's records:
\* calendar dates, or date-times.
PlainDates == { D0105, D0120, D0131 }
TimedDates == { D0120T, D0131T }
DateWorlds == { PlainDates, TimedDates }

Collectors == { "get_insider_trades", "get_company_news" }

\* One record of a JSON response body: a dict with the date field.
JsonRecords(f, D) ==
    IF f = "get_insider_trades"
    THEN { [filing_date |-> d] : d \in D }
    ELSE { [date |-> d] : d \in D }

SeqsUpTo(S, n) == UNION { [1..k -> S] : k \in 0..n }

\* The pages the server may answer with: any records, in any order, also
\* more than the requested limit.
JsonPages(f, D) == SeqsUpTo(JsonRecords(f, D), MaxPage)

Statuses == { 200, 429, 500 }

StatusText(st) ==
    CASE st = 200 -> "OK"
      [] st = 429 -> "Too Many Requests"
      [] OTHER    -> "Internal Server Error"

\* What one HTTP exchange can answer to a request of fetch function f, on a
\* server whose records carry the date values D.
Responses(f, D) ==
    { [status |-> 200, text |-> StatusText(200), items |-> p] : p \in JsonPages(f, D) }
    \cup { [status |-> st, text |-> StatusText(st), items |-> << >>] :
             st \in Statuses \ { 200 } }

NoResponse == [status |-> 0, text |-> "", items |-> << >>]


(***************************************************************************)
(* State.                                                                  *)
(***************************************************************************)
VARIABLES
    dates,             \* the server: the date values its records carry
    cache,             \* _cache: per data kind, the entries by key
    pc,                \* "idle": no call runs; "attempt": an HTTP attempt is next
    fn,                \* the function that runs or ran last
    args,              \* its arguments: ticker, start_date, end_date, limit
    cache_key,         \* local cache_key
    all_items,         \* local all_trades / all_news
    current_end_date,  \* local current_end_date
    request,           \* _make_api_request: url, method
    max_retries,       \* _make_api_request: max_retries
    attempt,           \* _make_api_request: the loop variable
    ret,               \* how the last call ended and what it gave
    calls,             \* history: calls started so far
    hit,               \* history: the running or last call was answered from the cache
    nreq,              \* history: the number of _make_api_request calls of this call
    pages,             \* history: the pages this call got with status 200
    writes,            \* history: the cache writes of this call
    trace,             \* history: sends, responses and sleeps of the running _make_api_request call
    returned,          \* history: the response a direct _make_api_request call returned
    cacheAtStart,      \* history: the cache when this call started
    prev,              \* history: the call before this one
    FUTU_AVAILABLE,    \* module flag: the import of .futu_api succeeded
    server,            \* the records a record-keeping server holds, newest first
    callers            \* concurrent callers of one paginated fetch: their locals

collectorVars == << fn, args, cache_key, all_items, current_end_date >>
execVars == << request, max_retries, attempt >>
histVars == << calls, hit, nreq, pages, writes, cacheAtStart, prev >>
\* State that the paginated fetch of one caller and _make_api_request never
\* read or write.
outside == << FUTU_AVAILABLE, server, callers >>
vars == << dates, cache, pc, collectorVars, execVars, ret, histVars, trace, returned,
           outside >>

(***************************************************************************)
(* The data models: a validated object of a model class, and its dump.     *)
(***************************************************************************)
ModelClass(f) ==
    CASE f = "get_insider_trades" -> "InsiderTrade"
      [] f \in { "get_prices", "get_hk_prices" } -> "Price"
      [] f \in { "get_financial_metrics", "get_hk_financial_metrics", "get_market_cap" } ->
           "FinancialMetrics"
      [] f = "search_line_items" -> "LineItem"
      [] OTHER -> "CompanyNews"

\* InsiderTrade(**d), CompanyNews(**d).
Construct(f, d) == [cls |-> ModelClass(f), fields |-> d]

\* obj.model_dump().
ModelDump(obj) == obj.fields

\* InsiderTradeResponse(**data).insider_trades, CompanyNewsResponse(**data).news.
ParsePage(f, items) == [i \in DOMAIN items |-> Construct(f, items[i])]

\* trade.filing_date, news.date.
DateField(f, obj) ==
    IF f = "get_insider_trades" THEN obj.fields.filing_date ELSE obj.fields.date

(***************************************************************************)
(* The cache: get and set by key, one store per data kind.                 *)
(***************************************************************************)
CacheKind(f) ==
    CASE f = "get_insider_trades" -> "insider_trades"
      [] f \in { "get_prices", "get_hk_prices" } -> "prices"
      [] f \in { "get_financial_metrics", "get_hk_financial_metrics", "get_market_cap" } ->
           "financial_metrics"
      [] OTHER -> "company_news"

\* The fetch functions of api.py that read and write the cache.
CachedFetches == Collectors \cup { "get_prices", "get_financial_metrics" }

CacheKinds == { CacheKind(f) : f \in CachedFetches }

EmptyCache == [k \in CacheKinds |-> << >>]

CacheHas(c, kind, key) == key \in DOMAIN c[kind]

CacheSet(c, kind, key, value) == [c EXCEPT ![kind] = (key :> value) @@ @]

\* A cache check that never finds the entry.
CacheNeverHits(c, kind, key) == FALSE

\* if cached_data := _cache.get_...(cache_key): an entry that is a non-empty list.
CacheHit(c, kind, key) == CacheHas(c, kind, key) /\ c[kind][key] # << >>

\* A key that leaves out the limit.
CacheKeyWithoutLimit(ticker, start_date, end_date, limit) ==
    ticker \o << "_" >>
      \o (IF Truthy(start_date) THEN start_date ELSE << "n", "o", "n", "e" >>)
      \o << "_" >> \o end_date

\* cache_key = f"{ticker}_{start_date or 'none'}_{end_date}_{limit}"
CacheKey(ticker, start_date, end_date, limit) ==
    ticker \o << "_" >>
      \o (IF Truthy(start_date) THEN start_date ELSE << "n", "o", "n", "e" >>)
      \o << "_" >> \o end_date \o << "_" >> \o IntToStr(limit)


(***************************************************************************)
(* _make_api_request: one HTTP request per attempt, linear backoff on 429. *)
(***************************************************************************)
Methods == { "GET", "POST", "post" }

\* method.upper()
Upper(m) == IF m = "post" THEN "POST" ELSE m

\* requests.post when method.upper() == "POST", requests.get otherwise.
HttpVerb(m) == IF Upper(m) = "POST" THEN "post" ELSE "get"

\* A backoff that counts the attempt from 1: 90s, 120s, ...
DelayCountingFromOne(a) == BackoffBase + (BackoffStep * (a + 1))

\* delay = 60 + (30 * attempt)
Delay(a) == BackoffBase + (BackoffStep * a)

\* A retry on every status that is not 200.
ShouldRetryAnyError(resp, a, mr) == resp.status # StatusOK /\ a < mr

\* response.status_code == 429 and attempt < max_retries
ShouldRetry(resp, a, mr) == resp.status = StatusRateLimited /\ a < mr

SendEvent(m) == [ev |-> "send", verb |-> HttpVerb(m), n |-> 0, resp |-> NoResponse]
ResponseEvent(resp) == [ev |-> "response", verb |-> "", n |-> resp.status, resp |-> resp]
SleepEvent(secs) == [ev |-> "sleep", verb |-> "", n |-> secs, resp |-> NoResponse]

\* An attempt answered 429 with attempts left: sleep, then the next attempt.
ExecRetry(resp) ==
    /\ ShouldRetry(resp, attempt, max_retries)
    /\ attempt' = attempt + 1
    /\ trace' = trace \o << SendEvent(request.method), ResponseEvent(resp),
                            SleepEvent(Delay(attempt)) >>
    /\ UNCHANGED << request, max_retries, returned >>

\* Any other attempt: the response is returned as it is. For a fetch function
\* that takes the response, the history of the finished call is dropped.
ExecReturn(resp) ==
    /\ ~ShouldRetry(resp, attempt, max_retries)
    /\ trace' = << >>
    /\ returned' = NoResponse

(***************************************************************************)
(* get_insider_trades / get_company_news: the paginated fetch.             *)
(***************************************************************************)
Param(name, value) == [name |-> name, value |-> value]

UpperBoundName(f) == IF f = "get_insider_trades" THEN "filing_date_lte" ELSE "end_date"
LowerBoundName(f) == IF f = "get_insider_trades" THEN "filing_date_gte" ELSE "start_date"
Endpoint(f) == IF f = "get_insider_trades" THEN "insider-trades" ELSE "news"

\* The url of one request of the loop.
BuildUrl(f, a, cur) ==
    [ path  |-> Endpoint(f),
      query |-> << Param("ticker", a.ticker), Param(UpperBoundName(f), cur) >>
                \o (IF Truthy(a.start_date)
                    THEN << Param(LowerBoundName(f), a.start_date) >>
                    ELSE << >>)
                \o << Param("limit", IntToStr(a.limit)) >> ]

\* response = _make_api_request(url, headers): method and max_retries default.
BuildRequest(f, a, cur) == [url |-> BuildUrl(f, a, cur), method |-> "GET"]

\* A stop on an empty page only: a short page does not end the loop.
StopsOnlyWithoutStart(start_date, page, limit) == ~Truthy(start_date)

\* if not start_date or len(page) < limit: break
StopsAfterPage(start_date, page, limit) ==
    ~Truthy(start_date) \/ Len(page) < limit

\* A cursor that keeps the time of day.
NextCursorUncut(f, page) == StrMin({ DateField(f, o) : o \in Range(page) })

\* min(item.<date field> for item in page).split("T")[0]
NextCursor(f, page) == SplitT(StrMin({ DateField(f, o) : o \in Range(page) }))

\* A stop only below start_date: current_end_date < start_date.
ReachedStartStrict(cur, start_date) == StrLeq(cur, start_date) /\ cur # start_date

\* if current_end_date <= start_date: break
ReachedStart(cur, start_date) == StrLeq(cur, start_date)

\* The loop body after a 200 response, for a given start_date and limit: the
\* new all_items and current_end_date, and whether the loop is left.
LoopBody(f, start_date, limit, all, cur, page) ==
    IF page = << >>
    THEN [all |-> all, cur |-> cur, stop |-> TRUE]
    ELSE IF StopsAfterPage(start_date, page, limit)
         THEN [all |-> all \o page, cur |-> cur, stop |-> TRUE]
         ELSE [all |-> all \o page,
               cur |-> NextCursor(f, page),
               stop |-> ReachedStart(NextCursor(f, page), start_date)]

\* A loop that pages down to a default start date when the caller gave none.
LoopStepDefaultStart(f, a, all, cur, page) ==
    LoopBody(f, IF Truthy(a.start_date) THEN a.start_date ELSE D0101, a.limit,
             all, cur, page)

\* One pass of the loop body with the caller's start_date and limit.
LoopStep(f, a, all, cur, page) ==
    LoopBody(f, a.start_date, a.limit, all, cur, page)

\* [item.model_dump() for item in all_items]
DumpAll(all) == [i \in DOMAIN all |-> ModelDump(all[i])]

\* A cache hit that hands back the stored dicts as they are.
LoadAllRaw(f, cached) == cached

\* [Model(**d) for d in cached_data]
LoadAll(f, cached) == [i \in DOMAIN cached |-> Construct(f, cached[i])]

\* A cache write also for an empty result.
CachesAlways(all) == TRUE

\* if not all_items: return [] -- nothing is cached then.
CachesResult(all) == all # << >>

NoError == [ticker |-> << >>, status |-> 0, text |-> ""]
NoRet == [tag |-> "none", value |-> << >>, error |-> NoError]
Returned(v) == [tag |-> "returned", value |-> v, error |-> NoError]
\* raise Exception(f"Error fetching data: {ticker} - {status_code} - {text}")
Raised(ticker, resp) ==
    [tag |-> "raised", value |-> << >>,
     error |-> [ticker |-> ticker, status |-> resp.status, text |-> resp.text]]

NoArgs == [ticker |-> << >>, start_date |-> None, end_date |-> << >>, limit |-> 0]
NoRequest == [url |-> [path |-> "", query |-> << >>], method |-> "GET"]
NoPrev == [fn |-> "", args |-> NoArgs, ret |-> NoRet]

\* What is remembered of the call that just ended, when the next one starts.
LastCall ==
    IF calls = 0
    THEN NoPrev
    ELSE [fn |-> fn, args |-> args, ret |-> ret]

Init ==
    /\ dates \in DateWorlds
    /\ cache = EmptyCache
    /\ pc = "idle"
    /\ fn = ""
    /\ args = NoArgs
    /\ cache_key = << >>
    /\ all_items = << >>
    /\ current_end_date = None
    /\ request = NoRequest
    /\ max_retries = DefaultMaxRetries
    /\ attempt = 0
    /\ ret = NoRet
    /\ calls = 0
    /\ hit = FALSE
    /\ nreq = 0
    /\ pages = << >>
    /\ writes = << >>
    /\ trace = << >>
    /\ returned = NoResponse
    /\ cacheAtStart = EmptyCache
    /\ prev = NoPrev
    /\ FUTU_AVAILABLE = TRUE
    /\ server = << >>
    /\ callers = << >>

\* A call whose key is in the cache: the stored records are returned.
FetchFromCache(f, a) ==
    /\ pc = "idle"
    /\ calls < MaxCalls
    /\ CacheHit(cache, CacheKind(f), CacheKey(a.ticker, a.start_date, a.end_date, a.limit))
    /\ fn' = f
    /\ args' = a
    /\ cache_key' = CacheKey(a.ticker, a.start_date, a.end_date, a.limit)
    /\ ret' = Returned(LoadAll(f, cache[CacheKind(f)][cache_key']))
    /\ calls' = calls + 1
    /\ hit' = TRUE
    /\ nreq' = 0
    /\ pages' = << >>
    /\ writes' = << >>
    /\ cacheAtStart' = cache
    /\ prev' = LastCall
    /\ UNCHANGED << dates, outside, cache, pc, all_items, current_end_date, execVars, trace, returned >>

\* A call whose key is not in the cache: the loop starts with the caller's
\* end_date and the first request is handed to _make_api_request.
FetchBegin(f, a) ==
    /\ pc = "idle"
    /\ calls < MaxCalls
    /\ ~CacheHit(cache, CacheKind(f), CacheKey(a.ticker, a.start_date, a.end_date, a.limit))
    /\ fn' = f
    /\ args' = a
    /\ cache_key' = CacheKey(a.ticker, a.start_date, a.end_date, a.limit)
    /\ all_items' = << >>
    /\ current_end_date' = a.end_date
    /\ request' = BuildRequest(f, a, a.end_date)
    /\ max_retries' = DefaultMaxRetries
    /\ attempt' = 0
    /\ pc' = "attempt"
    /\ ret' = NoRet
    /\ calls' = calls + 1
    /\ hit' = FALSE
    /\ nreq' = 1
    /\ pages' = << >>
    /\ writes' = << >>
    /\ cacheAtStart' = cache
    /\ prev' = LastCall
    /\ UNCHANGED << dates, outside, cache, trace, returned >>

\* An attempt of the running request is answered 429 and is retried.
Retry(resp) ==
    /\ pc = "attempt"
    /\ ExecRetry(resp)
    /\ UNCHANGED << dates, outside, cache, pc, collectorVars, ret, histVars >>

\* A fetch that, on a status other than 200, gives back what it has so far.
FailKeepsPartial(resp) ==
    /\ pc = "attempt"
    /\ fn \in Collectors
    /\ ExecReturn(resp)
    /\ resp.status # StatusOK
    /\ ret' = Returned(all_items)
    /\ pc' = "idle"
    /\ all_items' = << >>
    /\ current_end_date' = None
    /\ request' = NoRequest
    /\ attempt' = 0
    /\ UNCHANGED << dates, outside, cache, fn, args, cache_key, max_retries, histVars >>

\* The request came back with a status other than 200: the fetch raises.
FailOnStatus(resp) ==
    /\ pc = "attempt"
    /\ fn \in Collectors
    /\ ExecReturn(resp)
    /\ resp.status # StatusOK
    /\ ret' = Raised(args.ticker, resp)
    /\ pc' = "idle"
    /\ all_items' = << >>
    /\ current_end_date' = None
    /\ request' = NoRequest
    /\ attempt' = 0
    /\ UNCHANGED << dates, outside, cache, fn, args, cache_key, max_retries, histVars >>

\* A full page above start_date: the cursor moves and the next request is
\* handed to _make_api_request.
NextPage(resp) ==
    LET page == ParsePage(fn, resp.items)
        step == LoopStep(fn, args, all_items, current_end_date, page)
    IN  /\ pc = "attempt"
        /\ fn \in Collectors
        /\ ExecReturn(resp)
        /\ resp.status = StatusOK
        /\ ~step.stop
        /\ nreq < MaxRequests
        /\ all_items' = step.all
        /\ current_end_date' = step.cur
        /\ request' = BuildRequest(fn, args, step.cur)
        /\ attempt' = 0
        /\ nreq' = nreq + 1
        /\ pages' = Append(pages, page)
        /\ UNCHANGED << dates, outside, cache, pc, fn, args, cache_key, max_retries, ret, calls, hit,
                        writes, cacheAtStart, prev >>

\* The loop is left: a non-empty result is cached, and the result returned.
Finish(resp) ==
    LET page == ParsePage(fn, resp.items)
        step == LoopStep(fn, args, all_items, current_end_date, page)
    IN  /\ pc = "attempt"
        /\ fn \in Collectors
        /\ ExecReturn(resp)
        /\ resp.status = StatusOK
        /\ step.stop
        /\ pages' = Append(pages, page)
        /\ IF CachesResult(step.all)
           THEN /\ cache' = CacheSet(cache, CacheKind(fn), cache_key, DumpAll(step.all))
                /\ writes' = Append(writes, [kind  |-> CacheKind(fn),
                                             key   |-> cache_key,
                                             after |-> nreq])
           ELSE UNCHANGED << cache, writes >>
        /\ ret' = Returned(step.all)
        /\ pc' = "idle"
        /\ all_items' = << >>
        /\ current_end_date' = None
        /\ request' = NoRequest
        /\ attempt' = 0
        /\ UNCHANGED << dates, outside, fn, args, cache_key, max_retries, calls, hit, nreq,
                        cacheAtStart, prev >>

ArgSets == [ticker : Tickers, start_date : StartDates, end_date : EndDates, limit : Limits]

Next ==
    \/ \E f \in Collectors, a \in ArgSets : FetchFromCache(f, a)
    \/ \E f \in Collectors, a \in ArgSets : FetchBegin(f, a)
    \/ \E resp \in Responses(fn, dates) : Retry(resp)
    \/ \E resp \in Responses(fn, dates) : FailOnStatus(resp)
    \/ \E resp \in Responses(fn, dates) : NextPage(resp)
    \/ \E resp \in Responses(fn, dates) : Finish(resp)

Spec == Init /\ [][Next]_vars



(***************************************************************************)
(* Properties of the paginated fetch.                                      *)
(***************************************************************************)
RECURSIVE Flatten(_)
Flatten(ps) == IF ps = << >> THEN << >> ELSE Head(ps) \o Flatten(Tail(ps))

\* The date-field values of the records of a page, in page order.
PageDates(page) == [i \in DOMAIN page |-> DateField(fn, page[i])]

\* The values a request's url carries for the query parameter `name`.
QueryValues(req, name) ==
    { req.url.query[i].value :
        i \in { j \in DOMAIN req.url.query : req.url.query[j].name = name } }

\* The upper-bound date parameter(s) of a request of the running function.
UpperBounds(req) ==
    QueryValues(req, IF fn = "get_insider_trades" THEN "filing_date_lte" ELSE "end_date")

\* The cursor the claims speak of: the minimum date of a page, cut before "T".
CursorOf(page) == SplitT(StrMin(Range(PageDates(page))))

SameCallAsBefore == calls >= 2 /\ prev.fn = fn /\ prev.args = args

\* C3, as claimed: a second call with the same arguments as a first call that
\* returned is answered from the cache, with the same result and no request.
C3_SecondCallNoRequests ==
    (SameCallAsBefore /\ prev.ret.tag = "returned") =>
        (hit /\ nreq = 0 /\ ret = prev.ret)

\* C3, amended: a second call with the same arguments as a first call that
\* returned at least one record is answered from the cache, with the same
\* result and no request.
C3_SecondCallAfterNonEmpty ==
    (SameCallAsBefore /\ prev.ret.tag = "returned" /\ prev.ret.value # << >>) =>
        /\ hit
        /\ nreq = 0
        /\ pc = "idle"
        /\ ret = prev.ret
        /\ cache = cacheAtStart

C3_Witness ==
    /\ SameCallAsBefore
    /\ prev.ret.tag = "returned"
    /\ Len(prev.ret.value) >= 2
    /\ hit
    /\ ret = prev.ret

\* C4: a fetch raises as soon as a request comes back with a status other than
\* 200 (a 429 left after the retries included): that request is its last, it
\* gives no records, drops the pages it had and leaves the cache as it was;
\* a fetch that returns has had every request answered with 200.
C4_FailureAborts ==
    /\ ret.tag = "raised" =>
         /\ pc = "idle"
         /\ ret.value = << >>
         /\ all_items = << >>
         /\ ret.error.status # 200
         /\ ret.error.ticker = args.ticker
         /\ nreq = Len(pages) + 1
         /\ writes = << >>
         /\ cache = cacheAtStart
    /\ (ret.tag = "returned" /\ ~hit /\ fn \in Collectors) => nreq = Len(pages)
    /\ (pc = "attempt" /\ fn \in Collectors) => nreq = Len(pages) + 1

C4_Witness ==
    /\ ret.tag = "raised"
    /\ ret.error.status = 429
    /\ Len(pages) >= 1
    /\ cache = cacheAtStart

\* C5: the first request of a fetch carries the caller's end_date as its
\* upper-bound date parameter, and every later request the minimum date-field
\* value of the page before it, cut before "T".
C5_CursorAdvance ==
    (pc = "attempt" /\ fn \in Collectors) =>
        /\ UpperBounds(request) =
             { IF pages = << >> THEN args.end_date
                                ELSE CursorOf(pages[Len(pages)]) }
        /\ (pages # << >> /\ PageDates(pages[Len(pages)]) = << D0131T, D0120T >>)
             => UpperBounds(request) = { D0120 }

C5_Witness ==
    /\ pc = "attempt"
    /\ nreq = 2
    /\ PageDates(pages[1]) = << D0131T, D0120T >>
    /\ UpperBounds(request) = { D0120 }

\* C6: without a start_date a fetch that misses the cache hands exactly one
\* request to _make_api_request, whatever the size of the page.
C6_OneRequestWithoutStart ==
    (fn \in Collectors /\ ~hit /\ args.start_date = None) =>
        /\ nreq = 1
        /\ Len(pages) <= 1
        /\ pages # << >> => pc = "idle"

C6_Witness ==
    /\ fn \in Collectors
    /\ ~hit
    /\ args.start_date = None
    /\ pc = "idle"
    /\ nreq = 1
    /\ Len(pages) = 1
    /\ Len(pages[1]) > args.limit

\* C7: with a start_date, no request follows a page of fewer than limit
\* records.
C7_ShortPageEnds ==
    \A i \in DOMAIN pages :
        (fn \in Collectors /\ args.start_date # None /\ Len(pages[i]) < args.limit) =>
            /\ i = Len(pages)
            /\ nreq = i
            /\ pc = "idle"

C7_Witness ==
    /\ args.start_date # None
    /\ Len(pages) = 2
    /\ Len(pages[2]) = 1
    /\ args.limit = 2
    /\ nreq = 2
    /\ pc = "idle"

\* C8: a fetch whose first page is empty returns an empty sequence and makes
\* no cache entry, and the next call with the same arguments sends a request
\* again.
C8_EmptyNotCached ==
    /\ (fn \in Collectors /\ ~hit /\ pages # << >> /\ pages[1] = << >>) =>
         /\ pc = "idle"
         /\ ret = Returned(<< >>)
         /\ nreq = 1
         /\ writes = << >>
         /\ cache = cacheAtStart
         /\ ~CacheHas(cache, CacheKind(fn), cache_key)
    /\ (SameCallAsBefore /\ prev.ret = Returned(<< >>)) =>
         /\ ~hit
         /\ nreq >= 1

C8_Witness ==
    /\ SameCallAsBefore
    /\ prev.ret = Returned(<< >>)
    /\ ~hit
    /\ pc = "idle"
    /\ Len(pages) = 1
    /\ ret.tag = "returned"

\* C9: after a page of at least limit records, with a start_date, no request
\* follows when the new cursor is <= start_date as strings, and a request
\* follows when it is greater.
C9_StopAtStart ==
    \A i \in DOMAIN pages :
        (fn \in Collectors /\ args.start_date # None
           /\ pages[i] # << >> /\ Len(pages[i]) >= args.limit) =>
            IF StrLeq(CursorOf(pages[i]), args.start_date)
            THEN nreq = i /\ pc = "idle"
            ELSE nreq > i

C9_Witness ==
    /\ args.start_date # None
    /\ Len(pages) = 2
    /\ nreq = 2
    /\ pc = "idle"
    /\ Len(pages[2]) >= args.limit
    /\ CursorOf(pages[2]) = args.start_date

\* The key the claim gives: <ticker>_<start_date or 'none'>_<end_date>_<limit>.
KeyText(a) ==
    a.ticker \o << "_" >>
      \o (IF a.start_date = None THEN << "n", "o", "n", "e" >> ELSE a.start_date)
      \o << "_" >> \o a.end_date \o << "_" >> \o << Digits[a.limit + 1] >>

ExampleArgs == [ticker |-> AAPL, start_date |-> D0101, end_date |-> D0131, limit |-> 2]

ExampleRuns ==
    /\ fn \in Collectors
    /\ args = ExampleArgs
    /\ ~hit
    /\ pages # << >>
    /\ PageDates(pages[1]) = << D0131, D0120 >>

ExampleEnds ==
    /\ ExampleRuns
    /\ Len(pages) = 2
    /\ PageDates(pages[2]) = << D0105 >>

\* C10: a fetch that misses the cache and gathers at least one record writes
\* the cache exactly once, after its last request, under the key
\* <ticker>_<start_date or 'none'>_<end_date>_<limit>, with the records of all
\* its pages; the example of the specification gives two requests, the second
\* with upper bound 2024-01-20, three records and one write under
\* AAPL_2024-01-01_2024-01-31_2.
C10_CachedOnce ==
    /\ (fn \in Collectors /\ pc = "attempt") => writes = << >>
    /\ (fn \in Collectors /\ ~hit /\ ret.tag = "returned" /\ Flatten(pages) # << >>) =>
         /\ Len(writes) = 1
         /\ writes[1].after = nreq
         /\ nreq = Len(pages)
         /\ writes[1].kind = (IF fn = "get_insider_trades" THEN "insider_trades"
                                                           ELSE "company_news")
         /\ writes[1].key = KeyText(args)
         /\ CacheHas(cache, writes[1].kind, writes[1].key)
         /\ cache[writes[1].kind][writes[1].key]
              = [i \in DOMAIN Flatten(pages) |-> Flatten(pages)[i].fields]
         /\ ret.value = Flatten(pages)
         /\ \A k \in DOMAIN cache : \A key \in DOMAIN cache[k] :
              (k # writes[1].kind \/ key # writes[1].key) =>
                 (key \in DOMAIN cacheAtStart[k] /\ cache[k][key] = cacheAtStart[k][key])
    /\ (ExampleRuns /\ Len(pages) = 1) =>
         /\ nreq = 2
         /\ pc = "attempt" => UpperBounds(request) = { D0120 }
    /\ ExampleEnds =>
         /\ pc = "idle"
         /\ nreq = 2
         /\ Len(ret.value) = 3
         /\ Len(writes) = 1
         /\ writes[1].key =
              << "A", "A", "P", "L", "_",
                 "2", "0", "2", "4", "-", "0", "1", "-", "0", "1", "_",
                 "2", "0", "2", "4", "-", "0", "1", "-", "3", "1", "_", "2" >>

C10_Witness ==
    /\ ExampleEnds
    /\ pc = "idle"
    /\ Len(writes) = 1
    /\ Len(ret.value) = 3

(***************************************************************************)
(* _is_hk_stock: the routing of a ticker to the alternate-market client.   *)
(***************************************************************************)
T00700 == << "0", "0", "7", "0", "0" >>
T0700 == << "0", "7", "0", "0" >>
T00700HK == T00700 \o << ".", "H", "K" >>
HkSuffix == << ".", "H", "K" >>

\* Python's s.endswith(suffix).
EndsWith(s, suffix) ==
    /\ Len(s) >= Len(suffix)
    /\ SubSeq(s, Len(s) - Len(suffix) + 1, Len(s)) = suffix

\* Python's s.isdigit() on the characters of the model: true when s has at
\* least one character and all its characters are digits.
IsDigit(s) == Len(s) > 0 /\ \A i \in DOMAIN s : s[i] \in Range(Digits)

\* A classifier that takes only five-digit codes for alternate-market.
IsHkStockFiveDigits(ticker) ==
    IF EndsWith(ticker, HkSuffix)
    THEN TRUE
    ELSE IF IsDigit(ticker) /\ Len(ticker) \in { 5 }
         THEN TRUE
         ELSE FALSE

\* _is_hk_stock(ticker)
IsHkStock(ticker) ==
    IF EndsWith(ticker, HkSuffix)
    THEN TRUE
    ELSE IF IsDigit(ticker) /\ Len(ticker) \in { 4, 5 }
         THEN TRUE
         ELSE FALSE


(***************************************************************************)
(* get_prices, get_financial_metrics, search_line_items: one request each. *)
(***************************************************************************)
\* period: str = "ttm"
DefaultPeriod == << "t", "t", "m" >>
\* limit: int = 10 of get_financial_metrics, as get_market_cap calls it.
DefaultLimit == 10

OneShots == { "get_prices", "get_financial_metrics", "search_line_items" }

\* The tickers of the test: a primary-market one and an alternate-market one.
FetchTickers == { AAPL, T00700 }

\* A market capitalisation as JSON gives it: null, zero or a positive number.
ZeroCap == << "0" >>
SomeCap == << "7" >>
Caps == { None, ZeroCap, SomeCap }

\* The records of a response body, by endpoint.
PriceRecords == { [time |-> d] : d \in { D0120, D0131 } }
MetricRecords == { [market_cap |-> m] : m \in Caps }
LineItemRecords == { [report_period |-> d] : d \in { D0120, D0131 } }
FactsRecords == { [market_cap |-> m] : m \in Caps }

BodyRecords(path) ==
    CASE path = "prices" -> PriceRecords
      [] path = "financial-metrics" -> MetricRecords
      [] path = "financials/search/line-items" -> LineItemRecords
      [] path = "company/facts" -> FactsRecords
      [] path = "insider-trades" -> JsonRecords("get_insider_trades", { D0131 })
      [] OTHER -> JsonRecords("get_company_news", { D0131 })

\* What one HTTP exchange can answer to a request for `path`. The company
\* facts body holds one record, the others a list.
PathResponses(path) ==
    { [status |-> 200, text |-> StatusText(200), items |-> p] :
        p \in IF path = "company/facts"
              THEN { << r >> : r \in BodyRecords(path) }
              ELSE SeqsUpTo(BodyRecords(path), MaxPage) }
    \cup { [status |-> st, text |-> StatusText(st), items |-> << >>] :
             st \in Statuses \ { 200 } }

\* cache_key = f"{ticker}_{start_date}_{end_date}"
PricesKey(ticker, start_date, end_date) ==
    ticker \o << "_" >> \o start_date \o << "_" >> \o end_date

\* cache_key = f"{ticker}_{period}_{end_date}_{limit}"
MetricsKey(ticker, period, end_date, limit) ==
    ticker \o << "_" >> \o period \o << "_" >> \o end_date \o << "_" >> \o IntToStr(limit)

OneShotKey(f, a) ==
    IF f = "get_prices"
    THEN PricesKey(a.ticker, a.start_date, a.end_date)
    ELSE MetricsKey(a.ticker, DefaultPeriod, a.end_date, a.limit)

PricesUrl(a) ==
    [ path  |-> "prices",
      query |-> << Param("ticker", a.ticker), Param("interval", << "d", "a", "y" >>),
                   Param("interval_multiplier", IntToStr(1)),
                   Param("start_date", a.start_date), Param("end_date", a.end_date) >> ]

MetricsUrl(a) ==
    [ path  |-> "financial-metrics",
      query |-> << Param("ticker", a.ticker), Param("report_period_lte", a.end_date),
                   Param("limit", IntToStr(a.limit)), Param("period", DefaultPeriod) >> ]

LineItemsUrl == [ path |-> "financials/search/line-items", query |-> << >> ]

FactsUrl(a) == [ path |-> "company/facts", query |-> << Param("ticker", a.ticker) >> ]

\* The request a one-request fetch hands to _make_api_request.
OneShotRequest(f, a) ==
    CASE f = "get_prices" -> [url |-> PricesUrl(a), method |-> "GET"]
      [] f = "get_financial_metrics" -> [url |-> MetricsUrl(a), method |-> "GET"]
      [] OTHER -> [url |-> LineItemsUrl, method |-> "POST"]

\* Python's q[:n] for n >= 0.
Slice(q, n) == SubSeq(q, 1, IF n < Len(q) THEN n ELSE Len(q))

\* What the function returns for the parsed list of a 200 response.
OneShotValue(f, a, items) ==
    IF f = "search_line_items" THEN Slice(items, a.limit) ELSE items

\* The cache is written by get_prices and get_financial_metrics, for a
\* non-empty list.
OneShotCaches(f, items) == f \in CachedFetches /\ items # << >>


\* The same, for a fetch function of which the last response is noted.
ExecReturnNoted(resp) ==
    /\ ~ShouldRetry(resp, attempt, max_retries)
    /\ trace' = << >>
    /\ returned' = resp

\* The start of a call that is answered without a request: what is noted of
\* it, the locals of the paginated fetch and of _make_api_request untouched.
Answered(f, a, key, r, isHit) ==
    /\ fn' = f
    /\ args' = a
    /\ cache_key' = key
    /\ ret' = r
    /\ calls' = calls + 1
    /\ hit' = isHit
    /\ nreq' = 0
    /\ pages' = << >>
    /\ cacheAtStart' = cache
    /\ prev' = LastCall
    /\ returned' = NoResponse
    /\ UNCHANGED << dates, outside, pc, all_items, current_end_date, execVars >>

\* The start of a call that hands its one request to _make_api_request.
Requested(f, a, key, req) ==
    /\ fn' = f
    /\ args' = a
    /\ cache_key' = key
    /\ request' = req
    /\ max_retries' = DefaultMaxRetries
    /\ attempt' = 0
    /\ pc' = "attempt"
    /\ ret' = NoRet
    /\ calls' = calls + 1
    /\ hit' = FALSE
    /\ nreq' = 1
    /\ pages' = << >>
    /\ writes' = << >>
    /\ cacheAtStart' = cache
    /\ prev' = LastCall
    /\ trace' = << >>
    /\ returned' = NoResponse
    /\ UNCHANGED << dates, outside, cache, all_items, current_end_date >>

\* The end of a call that made a request.
Ended(r) ==
    /\ ret' = r
    /\ pc' = "idle"
    /\ request' = NoRequest
    /\ attempt' = 0
    /\ UNCHANGED << dates, outside, fn, args, cache_key, all_items, current_end_date,
                    max_retries, calls, hit, nreq, pages, cacheAtStart, prev >>

\* get_prices / get_financial_metrics for a primary-market ticker whose key is
\* in the cache.
OneShotFromCache(f, a) ==
    /\ pc = "idle"
    /\ calls < MaxCalls
    /\ f \in OneShots \cap CachedFetches
    /\ ~IsHkStock(a.ticker)
    /\ CacheHit(cache, CacheKind(f), OneShotKey(f, a))
    /\ Answered(f, a, OneShotKey(f, a),
                Returned(LoadAll(f, cache[CacheKind(f)][OneShotKey(f, a)])), TRUE)
    /\ writes' = << >>
    /\ trace' = << >>
    /\ UNCHANGED cache

\* get_prices / get_financial_metrics on a cache miss, and search_line_items,
\* for a primary-market ticker: the request is handed to _make_api_request.
OneShotBegin(f, a) ==
    /\ pc = "idle"
    /\ calls < MaxCalls
    /\ f \in OneShots
    /\ ~IsHkStock(a.ticker)
    /\ f \in CachedFetches => ~CacheHit(cache, CacheKind(f), OneShotKey(f, a))
    /\ Requested(f, a, IF f \in CachedFetches THEN OneShotKey(f, a) ELSE << >>,
                 OneShotRequest(f, a))

\* The request came back with a status other than 200: the fetch raises.
OneShotFail(resp) ==
    /\ pc = "attempt"
    /\ fn \in OneShots
    /\ ExecReturnNoted(resp)
    /\ resp.status # StatusOK
    /\ Ended(Raised(args.ticker, resp))
    /\ UNCHANGED << cache, writes >>

\* The request came back with 200: the list is parsed, cached when the
\* function caches and the list is not empty, and returned.
OneShotFinish(resp) ==
    LET items == ParsePage(fn, resp.items)
    IN  /\ pc = "attempt"
        /\ fn \in OneShots
        /\ ExecReturnNoted(resp)
        /\ resp.status = StatusOK
        /\ IF OneShotCaches(fn, items)
           THEN /\ cache' = CacheSet(cache, CacheKind(fn), cache_key, DumpAll(items))
                /\ writes' = Append(writes, [kind  |-> CacheKind(fn),
                                             key   |-> cache_key,
                                             after |-> nreq])
           ELSE UNCHANGED << cache, writes >>
        /\ Ended(Returned(OneShotValue(fn, args, items)))


(***************************************************************************)
(* futu_api.py: the alternate-market client.                               *)
(***************************************************************************)
HkFunctions ==
    { "get_hk_prices", "get_hk_financial_metrics", "get_hk_market_cap",
      "get_hk_company_news" }

\* ft.RET_OK and the other return code of a quote call.
RetCodes == { "RET_OK", "RET_ERROR" }

\* The rows of the data frame a quote call gives.
KlineRows == { [time_key |-> d] : d \in { D0131 } }
NewsRows == { [time |-> d] : d \in { D0131 } }

\* What the brokerage terminal does during one call: whether
\* ft.OpenQuoteContext connects, and the answer of the quote call.
TerminalReplies(g) ==
    [ connects : BOOLEAN,
      ret      : RetCodes,
      rows     : SeqsUpTo(IF g = "get_hk_prices" THEN KlineRows ELSE NewsRows, MaxPage) ]

\* cache_key = f"hk_{ticker}_{start_date}_{end_date}"
HkPricesKey(a) ==
    << "h", "k", "_" >> \o a.ticker \o << "_" >> \o a.start_date \o << "_" >> \o a.end_date

\* cache_key = f"hk_financial_{ticker}_{period}_{end_date}_{limit}"
HkMetricsKey(a) ==
    << "h", "k", "_", "f", "i", "n", "a", "n", "c", "i", "a", "l", "_" >>
      \o MetricsKey(a.ticker, DefaultPeriod, a.end_date, a.limit)

\* cache_key = f"hk_news_{ticker}_{start_date or 'none'}_{end_date}_{limit}"
HkNewsKey(a) ==
    << "h", "k", "_", "n", "e", "w", "s", "_" >>
      \o CacheKey(a.ticker, a.start_date, a.end_date, a.limit)

HkKey(g, a) ==
    CASE g = "get_hk_prices" -> HkPricesKey(a)
      [] g = "get_hk_financial_metrics" -> HkMetricsKey(a)
      [] OTHER -> HkNewsKey(a)

\* Price(..., time=time_str) / CompanyNews(ticker=ticker, ..., date=row.get('time', ''))
HkRecord(g, a, row) ==
    IF g = "get_hk_prices"
    THEN Construct(g, [time |-> row.time_key])
    ELSE Construct(g, [ticker |-> a.ticker, date |-> row.time])

\* FinancialMetrics(ticker=ticker, report_period=end_date, period=period,
\* currency="HKD", market_cap=None, ...)
HkMetric(a) ==
    Construct("get_hk_financial_metrics",
              [ticker |-> a.ticker, report_period |-> a.end_date,
               period |-> DefaultPeriod, market_cap |-> None])

\* The part of get_hk_prices / get_hk_company_news inside try: the client is
\* opened, the quote call made, the rows converted and cached. Every
\* exception in it, the failed connection included, ends in `return []`.
HkQuote(g, c, a, t) ==
    LET list == [i \in DOMAIN t.rows |-> HkRecord(g, a, t.rows[i])]
    IN  IF ~t.connects \/ t.ret # "RET_OK" \/ list = << >>
        THEN [ret |-> Returned(<< >>), cache |-> c]
        ELSE [ret   |-> Returned(list),
              cache |-> CacheSet(c, CacheKind(g), HkKey(g, a), DumpAll(list))]

\* A call of function g of futu_api.py on cache c: what it gives and the cache
\* it leaves.
HkCall(g, c, a, t) ==
    CASE g = "get_hk_market_cap" -> [ret |-> Returned(None), cache |-> c]
      [] g # "get_hk_market_cap" /\ CacheHit(c, CacheKind(g), HkKey(g, a)) ->
           [ret |-> Returned(LoadAll(g, c[CacheKind(g)][HkKey(g, a)])), cache |-> c]
      [] g = "get_hk_financial_metrics" /\ ~CacheHit(c, CacheKind(g), HkKey(g, a)) ->
           [ret   |-> Returned(<< HkMetric(a) >>),
            cache |-> CacheSet(c, CacheKind(g), HkKey(g, a), DumpAll(<< HkMetric(a) >>))]
      [] OTHER -> HkQuote(g, c, a, t)

\* Whether the call reaches the brokerage terminal.
HkConnects(g, c, a) ==
    /\ g \in { "get_hk_prices", "get_hk_company_news" }
    /\ ~CacheHit(c, CacheKind(g), HkKey(g, a))


(***************************************************************************)
(* The routing of alternate-market tickers in api.py, and the direct calls *)
(* of futu_api.py.                                                         *)
(***************************************************************************)
\* The fetch functions of api.py that hand an alternate-market ticker to
\* futu_api.py, and the function each hands it to.
RoutedFetches == { "get_prices", "get_financial_metrics", "get_market_cap" }

HkTarget(f) ==
    CASE f = "get_prices" -> "get_hk_prices"
      [] f = "get_financial_metrics" -> "get_hk_financial_metrics"
      [] OTHER -> "get_hk_market_cap"

\* raise Exception("港股数据需要富途API支持，请确保已安装futu-api依赖")
RaisedMissing ==
    [tag |-> "raised", value |-> << >>,
     error |-> [ticker |-> << >>, status |-> 0, text |-> "futu-api missing"]]

ConnectEvent(ok) ==
    [ev |-> "connect", verb |-> "", n |-> IF ok THEN 1 ELSE 0, resp |-> NoResponse]

\* Function g of futu_api.py runs for the call f(a) of the client, the
\* brokerage terminal doing t.
HkRun(f, g, a, t) ==
    /\ Answered(f, a, IF g = "get_hk_market_cap" THEN << >> ELSE HkKey(g, a),
                HkCall(g, cache, a, t).ret,
                g # "get_hk_market_cap" /\ CacheHit(cache, CacheKind(g), HkKey(g, a)))
    /\ cache' = HkCall(g, cache, a, t).cache
    /\ writes' = IF cache' # cache
                 THEN << [kind |-> CacheKind(g), key |-> HkKey(g, a), after |-> 0] >>
                 ELSE << >>
    /\ trace' = IF HkConnects(g, cache, a) THEN << ConnectEvent(t.connects) >> ELSE << >>

\* The client calls a function of futu_api.py itself.
HkDirect(g, a, t) ==
    /\ pc = "idle"
    /\ calls < MaxCalls
    /\ FUTU_AVAILABLE
    /\ g \in HkFunctions
    /\ HkRun(g, g, a, t)

\* get_prices / get_financial_metrics / get_market_cap for an
\* alternate-market ticker, futu_api loaded: the call is handed on.
RouteToHk(f, a, t) ==
    /\ pc = "idle"
    /\ calls < MaxCalls
    /\ f \in RoutedFetches
    /\ IsHkStock(a.ticker)
    /\ FUTU_AVAILABLE
    /\ HkRun(f, HkTarget(f), a, t)

\* A routing that goes on to the primary API when futu_api is missing.
RouteMissingFallsThrough(f, a) ==
    /\ pc = "idle"
    /\ calls < MaxCalls
    /\ f \in RoutedFetches \ { "get_market_cap" }
    /\ IsHkStock(a.ticker)
    /\ ~FUTU_AVAILABLE
    /\ Requested(f, a, OneShotKey(f, a), OneShotRequest(f, a))

\* The same for an alternate-market ticker, futu_api not loaded: the call
\* raises.
RouteMissing(f, a) ==
    /\ pc = "idle"
    /\ calls < MaxCalls
    /\ f \in RoutedFetches
    /\ IsHkStock(a.ticker)
    /\ ~FUTU_AVAILABLE
    /\ Answered(f, a, << >>, RaisedMissing, FALSE)
    /\ writes' = << >>
    /\ trace' = << >>
    /\ UNCHANGED cache

\* A line-item search that asks the primary API for every ticker.
LineItemsHkRequests(a) ==
    /\ pc = "idle"
    /\ calls < MaxCalls
    /\ IsHkStock(a.ticker)
    /\ Requested("search_line_items", a, << >>, OneShotRequest("search_line_items", a))

\* search_line_items for an alternate-market ticker: a notice and [].
LineItemsHk(a) ==
    /\ pc = "idle"
    /\ calls < MaxCalls
    /\ IsHkStock(a.ticker)
    /\ Answered("search_line_items", a, << >>, Returned(<< >>), FALSE)
    /\ writes' = << >>
    /\ trace' = << >>
    /\ UNCHANGED cache


(***************************************************************************)
(* get_market_cap: the company facts for today, the financial metrics for  *)
(* any other day.                                                          *)
(***************************************************************************)
\* `if not market_cap`: None and 0 are falsy.
TruthyCap(m) == m # None /\ m # ZeroCap

\* The lines after financial_metrics = get_financial_metrics(...).
CapOf(metrics) ==
    IF metrics = << >>
    THEN None
    ELSE IF ~TruthyCap(metrics[1].fields.market_cap)
         THEN None
         ELSE metrics[1].fields.market_cap

\* get_financial_metrics(ticker, end_date, api_key=api_key): period and limit
\* default.
MarketCapKey(a) == MetricsKey(a.ticker, DefaultPeriod, a.end_date, DefaultLimit)
MarketCapMetricsUrl(a) == MetricsUrl([a EXCEPT !.limit = DefaultLimit])

\* The days datetime.datetime.now() may fall on.
Clock == { D0120, D0131 }

\* Not today, and the metrics are in the cache.
MarketCapFromCache(a, now) ==
    /\ pc = "idle"
    /\ calls < MaxCalls
    /\ ~IsHkStock(a.ticker)
    /\ a.end_date # now
    /\ CacheHit(cache, "financial_metrics", MarketCapKey(a))
    /\ Answered("get_market_cap", a, MarketCapKey(a),
                Returned(CapOf(LoadAll("get_financial_metrics",
                                       cache["financial_metrics"][MarketCapKey(a)]))),
                TRUE)
    /\ writes' = << >>
    /\ trace' = << >>
    /\ UNCHANGED cache

\* Today: the company facts are requested. Another day: the metrics are, on
\* a cache miss.
MarketCapBegin(a, now) ==
    /\ pc = "idle"
    /\ calls < MaxCalls
    /\ ~IsHkStock(a.ticker)
    /\ IF a.end_date = now
       THEN Requested("get_market_cap", a, << >>, [url |-> FactsUrl(a), method |-> "GET"])
       ELSE /\ ~CacheHit(cache, "financial_metrics", MarketCapKey(a))
            /\ Requested("get_market_cap", a, MarketCapKey(a),
                         [url |-> MarketCapMetricsUrl(a), method |-> "GET"])

\* A status other than 200: the company facts path prints and returns None,
\* get_financial_metrics raises.
MarketCapFail(resp) ==
    /\ pc = "attempt"
    /\ fn = "get_market_cap"
    /\ ExecReturnNoted(resp)
    /\ resp.status # StatusOK
    /\ IF request.url.path = "company/facts"
       THEN Ended(Returned(None))
       ELSE Ended(Raised(args.ticker, resp))
    /\ UNCHANGED << cache, writes >>

\* Status 200: the market_cap of the company facts as it is; or the metrics
\* are cached when not empty and the market_cap of the first is returned.
MarketCapFinish(resp) ==
    LET items == ParsePage(fn, resp.items)
    IN  /\ pc = "attempt"
        /\ fn = "get_market_cap"
        /\ ExecReturnNoted(resp)
        /\ resp.status = StatusOK
        /\ IF request.url.path = "company/facts"
           THEN /\ Ended(Returned(items[1].fields.market_cap))
                /\ UNCHANGED << cache, writes >>
           ELSE /\ Ended(Returned(CapOf(items)))
                /\ IF items # << >>
                   THEN /\ cache' = CacheSet(cache, "financial_metrics", cache_key,
                                             DumpAll(items))
                        /\ writes' = Append(writes, [kind  |-> "financial_metrics",
                                                     key   |-> cache_key,
                                                     after |-> nreq])
                   ELSE UNCHANGED << cache, writes >>

(***************************************************************************)
(* The client calls the fetch functions of api.py and futu_api.py one      *)
(* after another.                                                          *)
(***************************************************************************)
\* The arguments the client passes; a field that is no parameter of the
\* function holds its placeholder.
FetchArgs(f) ==
    CASE f \in { "get_prices", "get_hk_prices" } ->
           [ticker : FetchTickers, start_date : { D0101 }, end_date : EndDates,
            limit : { DefaultLimit }]
      [] f \in { "get_market_cap", "get_hk_market_cap" } ->
           [ticker : FetchTickers, start_date : { None }, end_date : EndDates,
            limit : { DefaultLimit }]
      [] f \in { "get_financial_metrics", "get_hk_financial_metrics", "search_line_items" } ->
           [ticker : FetchTickers, start_date : { None }, end_date : EndDates,
            limit : Limits]
      [] OTHER ->
           [ticker : FetchTickers, start_date : { None, D0101 }, end_date : EndDates,
            limit : Limits]

InitFetch ==
    /\ dates = { D0131 }
    /\ cache = EmptyCache
    /\ pc = "idle"
    /\ fn = ""
    /\ args = NoArgs
    /\ cache_key = << >>
    /\ all_items = << >>
    /\ current_end_date = None
    /\ request = NoRequest
    /\ max_retries = DefaultMaxRetries
    /\ attempt = 0
    /\ ret = NoRet
    /\ calls = 0
    /\ hit = FALSE
    /\ nreq = 0
    /\ pages = << >>
    /\ writes = << >>
    /\ trace = << >>
    /\ returned = NoResponse
    /\ cacheAtStart = EmptyCache
    /\ prev = NoPrev
    /\ FUTU_AVAILABLE \in BOOLEAN
    /\ server = << >>
    /\ callers = << >>

NextFetch ==
    \/ \E f \in Collectors : \E a \in FetchArgs(f) : FetchFromCache(f, a)
    \/ \E f \in Collectors : \E a \in FetchArgs(f) : FetchBegin(f, a)
    \/ \E resp \in PathResponses(request.url.path) : Retry(resp)
    \/ \E resp \in PathResponses(request.url.path) : FailOnStatus(resp)
    \/ \E resp \in PathResponses(request.url.path) : NextPage(resp)
    \/ \E resp \in PathResponses(request.url.path) : Finish(resp)
    \/ \E f \in OneShots : \E a \in FetchArgs(f) : OneShotFromCache(f, a)
    \/ \E f \in OneShots : \E a \in FetchArgs(f) : OneShotBegin(f, a)
    \/ \E resp \in PathResponses(request.url.path) : OneShotFail(resp)
    \/ \E resp \in PathResponses(request.url.path) : OneShotFinish(resp)
    \/ \E a \in FetchArgs("get_market_cap"), now \in Clock : MarketCapFromCache(a, now)
    \/ \E a \in FetchArgs("get_market_cap"), now \in Clock : MarketCapBegin(a, now)
    \/ \E resp \in PathResponses(request.url.path) : MarketCapFail(resp)
    \/ \E resp \in PathResponses(request.url.path) : MarketCapFinish(resp)
    \/ \E f \in RoutedFetches : \E a \in FetchArgs(f), t \in TerminalReplies(HkTarget(f)) :
         RouteToHk(f, a, t)
    \/ \E f \in RoutedFetches : \E a \in FetchArgs(f) : RouteMissing(f, a)
    \/ \E a \in FetchArgs("search_line_items") : LineItemsHk(a)

SpecFetch == InitFetch /\ [][NextFetch]_vars

\* The client calls the functions of futu_api.py themselves; the module is
\* loaded then.
InitHk == InitFetch /\ FUTU_AVAILABLE

NextHk ==
    \E g \in HkFunctions : \E a \in FetchArgs(g), t \in TerminalReplies(g) :
      HkDirect(g, a, t)

SpecHk == InitHk /\ [][NextHk]_vars


(***************************************************************************)
(* Properties of the fetch functions called one after another.             *)
(***************************************************************************)
\* A step keeps every cache entry as it is.
EntriesKept ==
    \A k \in CacheKinds : \A key \in DOMAIN cache[k] :
       key \in DOMAIN cache'[k] /\ cache'[k][key] = cache[k][key]

\* The call that runs or ran last found its key in the cache.
KeyWasCached ==
    /\ calls >= 1
    /\ fn \in CachedFetches
    /\ CacheHas(cacheAtStart, CacheKind(fn), cache_key)

HttpFetches == OneShots \cup Collectors \cup { "get_market_cap" }

\* C12: a call of a fetch function whose request came back with a status that
\* is not a success status has raised an error that carries the ticker, the
\* status code and the response body; a call that returned a value had all
\* its requests answered 200.
C12_ErrorSurface ==
    /\ (pc = "idle" /\ fn \in HttpFetches \ Collectors
          /\ returned.status \notin { 0, StatusOK }) =>
         /\ ret.tag = "raised"
         /\ ret.error = [ticker |-> args.ticker, status |-> returned.status,
                         text |-> returned.text]
    /\ (pc = "idle" /\ fn \in Collectors /\ returned.status = 0 /\ ~hit) =>
         \/ /\ ret.tag = "raised"
            /\ ret.error.ticker = args.ticker
            /\ ret.error.status \notin { 0, StatusOK }
            /\ ret.error.text = StatusText(ret.error.status)
         \/ /\ ret.tag = "returned"
            /\ Len(pages) = nreq


(***************************************************************************)
(* _make_api_request called on its own, with any method and max_retries.   *)
(***************************************************************************)
DirectRequests ==
    { [url |-> BuildUrl("get_company_news",
                        [ticker |-> AAPL, start_date |-> None,
                         end_date |-> D0131, limit |-> 1], D0131),
       method |-> m] : m \in Methods }

InitExec ==
    /\ dates \in DateWorlds
    /\ cache = EmptyCache
    /\ pc = "attempt"
    /\ fn = "_make_api_request"
    /\ args = NoArgs
    /\ cache_key = << >>
    /\ all_items = << >>
    /\ current_end_date = None
    /\ request \in DirectRequests
    /\ max_retries \in 0..MaxRetriesArg
    /\ attempt = 0
    /\ ret = NoRet
    /\ calls = 1
    /\ hit = FALSE
    /\ nreq = 1
    /\ pages = << >>
    /\ writes = << >>
    /\ trace = << >>
    /\ returned = NoResponse
    /\ cacheAtStart = EmptyCache
    /\ prev = NoPrev
    /\ FUTU_AVAILABLE = TRUE
    /\ server = << >>
    /\ callers = << >>

\* The call returns the response of its last attempt to its caller.
DirectReturn(resp) ==
    /\ pc = "attempt"
    /\ fn = "_make_api_request"
    /\ ~ShouldRetry(resp, attempt, max_retries)
    /\ trace' = trace \o << SendEvent(request.method), ResponseEvent(resp) >>
    /\ returned' = resp
    /\ pc' = "idle"
    /\ ret' = Returned(<< >>)
    /\ UNCHANGED << dates, outside, cache, collectorVars, execVars, histVars >>

NextExec ==
    \/ \E resp \in Responses(fn, dates) : Retry(resp)
    \/ \E resp \in Responses(fn, dates) : DirectReturn(resp)

SpecExec == InitExec /\ [][NextExec]_vars

(***************************************************************************)
(* Properties of _make_api_request.                                        *)
(***************************************************************************)
Count(q, ev) == Cardinality({ i \in DOMAIN q : q[i].ev = ev })
Events(q, ev) == SelectSeq(q, LAMBDA e : e.ev = ev)
Numbers(q) == [i \in DOMAIN q |-> q[i].n]

\* The statuses answered so far in the running or last call, and its sleeps.
StatusesSeen == Numbers(Events(trace, "response"))
Sleeps == Numbers(Events(trace, "sleep"))

\* C1: a sleep comes only directly after a 429 response that is not the last
\* allowed attempt, the k-th sleep of a call lasts 60 + 30*(k-1) seconds, a
\* call makes at most max_retries + 1 attempts, and the responses
\* [429, 429, 200] give the sleeps 60 then 90 and return the 200 response.
C1_BackoffSchedule ==
    /\ \A i \in DOMAIN trace :
         trace[i].ev = "sleep" =>
           /\ i > 1
           /\ trace[i - 1].ev = "response"
           /\ trace[i - 1].n = 429
           /\ Count(SubSeq(trace, 1, i), "response") <= max_retries
           /\ trace[i].n = 60 + 30 * (Count(SubSeq(trace, 1, i), "sleep") - 1)
    /\ Count(trace, "send") <= max_retries + 1
    /\ Count(trace, "response") = Count(trace, "send")
    /\ (pc = "idle" /\ StatusesSeen = << 429, 429, 200 >>) =>
         /\ Sleeps = << 60, 90 >>
         /\ returned.status = 200
         /\ returned = trace[Len(trace)].resp

C1_Witness ==
    /\ pc = "idle"
    /\ StatusesSeen = << 429, 429, 200 >>
    /\ Sleeps = << 60, 90 >>

RaisedNetwork ==
    [tag |-> "raised", value |-> << >>,
     error |-> [ticker |-> << >>, status |-> 0, text |-> "ConnectionError"]]

FailEvent == [ev |-> "fail", verb |-> "", n |-> 0, resp |-> NoResponse]

\* A send failure handled like a 429: sleep and retry while attempts are left.
SendFailsRetried ==
    /\ pc = "attempt"
    /\ fn = "_make_api_request"
    /\ trace' = trace \o << SendEvent(request.method), FailEvent >>
                      \o (IF attempt < max_retries
                          THEN << SleepEvent(Delay(attempt)) >>
                          ELSE << >>)
    /\ IF attempt < max_retries
       THEN /\ attempt' = attempt + 1
            /\ UNCHANGED << pc, ret >>
       ELSE /\ ret' = RaisedNetwork
            /\ pc' = "idle"
            /\ UNCHANGED attempt
    /\ UNCHANGED << dates, outside, cache, collectorVars, request, max_retries, histVars,
                    returned >>

\* The send of an attempt raises: nothing in _make_api_request catches it,
\* the call ends with the exception.
SendFails ==
    /\ pc = "attempt"
    /\ fn = "_make_api_request"
    /\ trace' = trace \o << SendEvent(request.method), FailEvent >>
    /\ ret' = RaisedNetwork
    /\ pc' = "idle"
    /\ UNCHANGED << dates, outside, cache, collectorVars, execVars, histVars, returned >>

NextNet ==
    \/ \E resp \in Responses(fn, dates) : Retry(resp)
    \/ \E resp \in Responses(fn, dates) : DirectReturn(resp)
    \/ SendFails

SpecNet == InitExec /\ [][NextNet]_vars

\* C13: a send that fails is the last thing a call does: the call ends at once
\* with that exception, returns no response, sleeps no more and sends no
\* more, whatever number of attempts answered 429 came before.
C13_NetworkFailurePropagates ==
    \A i \in DOMAIN trace :
       trace[i].ev = "fail" =>
         /\ i = Len(trace)
         /\ trace[i - 1].ev = "send"
         /\ pc = "idle"
         /\ ret = RaisedNetwork
         /\ returned = NoResponse
         /\ Count(trace, "send") = Count(trace, "response") + 1
         /\ Count(trace, "sleep") = Count(trace, "response")
         /\ \A j \in DOMAIN StatusesSeen : StatusesSeen[j] = 429

C13_Witness ==
    /\ pc = "idle"
    /\ trace # << >>
    /\ trace[Len(trace)].ev = "fail"
    /\ StatusesSeen = << 429, 429 >>
    /\ Sleeps = << 60, 90 >>
    /\ max_retries = DefaultMaxRetries

(***************************************************************************)
(* Properties of the alternate-market client.                              *)
(***************************************************************************)
\* The call that ran last tried to connect to the brokerage terminal and
\* could not.
ConnectFailed == trace = << ConnectEvent(FALSE) >>

\* C14: a call of a function of futu_api.py returns a value ([] or None when
\* it has no data) and does not raise, except that it raises when the
\* connection to the brokerage terminal cannot be established.
C14_RaisesOnlyOnConnect ==
    (pc = "idle" /\ calls >= 1 /\ fn \in HkFunctions) =>
       IF ConnectFailed
       THEN ret.tag = "raised"
       ELSE ret.tag = "returned"

(***************************************************************************)
(* _is_hk_stock applied to tickers of many shapes.                         *)
(***************************************************************************)
\* Stems of digits and letters, bare or followed by an ending that is, or
\* looks like, the alternate-market suffix.
TickerStems == SeqsUpTo({ "0", "7", "A" }, MaxStem)
TickerEndings ==
    { << >>, HkSuffix, << ".", "H" >>, << "H", "K" >>, << ".", "H", "K", "0" >>,
      << ".", "h", "k" >> }
ClassifyInputs == { st \o en : st \in TickerStems, en \in TickerEndings }

InitClassify ==
    /\ dates = { }
    /\ cache = EmptyCache
    /\ pc = "idle"
    /\ fn = ""
    /\ args \in { [NoArgs EXCEPT !.ticker = t] : t \in ClassifyInputs }
    /\ cache_key = << >>
    /\ all_items = << >>
    /\ current_end_date = None
    /\ request = NoRequest
    /\ max_retries = DefaultMaxRetries
    /\ attempt = 0
    /\ ret = NoRet
    /\ calls = 0
    /\ hit = FALSE
    /\ nreq = 0
    /\ pages = << >>
    /\ writes = << >>
    /\ trace = << >>
    /\ returned = NoResponse
    /\ cacheAtStart = EmptyCache
    /\ prev = NoPrev
    /\ FUTU_AVAILABLE \in BOOLEAN
    /\ server = << >>
    /\ callers = << >>

\* _is_hk_stock(ticker) is called and returns.
Classify ==
    /\ pc = "idle"
    /\ calls = 0
    /\ fn' = "_is_hk_stock"
    /\ ret' = Returned(IsHkStock(args.ticker))
    /\ calls' = 1
    /\ UNCHANGED << dates, outside, cache, pc, args, cache_key, all_items, current_end_date,
                    execVars, hit, nreq, pages, writes, cacheAtStart, prev, trace, returned >>

NextClassify == Classify

SpecClassify == InitClassify /\ [][NextClassify]_vars

\* The ticker is some text followed by ".HK".
HasHkSuffix(t) == \E n \in 0..Len(t) : t = SubSeq(t, 1, n) \o << ".", "H", "K" >>

\* The ticker is made of digits only, four or five of them.
IsShortCode(t) ==
    /\ Len(t) = 4 \/ Len(t) = 5
    /\ \A i \in 1..Len(t) : t[i] \in { "0", "1", "2", "3", "4", "5", "6", "7", "8", "9" }

HkCallOf(F) == calls >= 1 /\ fn \in F /\ IsHkStock(args.ticker)

Callers == 1..MaxCallers

\* The locals of a caller that has not started.
NewCaller ==
    [pc |-> "start", all_items |-> << >>, current_end_date |-> None,
     request |-> NoRequest, attempt |-> 0, nreq |-> 0, ret |-> NoRet]

InitConc ==
    /\ dates = TimedDates
    /\ cache = EmptyCache
    /\ pc = "idle"
    /\ fn \in Collectors
    /\ args \in ArgSets
    /\ cache_key = CacheKey(args.ticker, args.start_date, args.end_date, args.limit)
    /\ all_items = << >>
    /\ current_end_date = None
    /\ request = NoRequest
    /\ max_retries = DefaultMaxRetries
    /\ attempt = 0
    /\ ret = NoRet
    /\ calls = 0
    /\ hit = FALSE
    /\ nreq = 0
    /\ pages = << >>
    /\ writes = << >>
    /\ trace = << >>
    /\ returned = NoResponse
    /\ cacheAtStart = EmptyCache
    /\ prev = NoPrev
    /\ FUTU_AVAILABLE = TRUE
    /\ server = << >>
    /\ callers = [c \in Callers |-> NewCaller]

\* What no step of a concurrent caller changes.
concFrame ==
    << dates, pc, collectorVars, execVars, ret, histVars, trace, returned,
       FUTU_AVAILABLE, server >>

\* The cache check at the top of the function: a hit returns the stored
\* records, a miss starts the loop with the first request.
ConcCheck(c) ==
    /\ callers[c].pc = "start"
    /\ IF CacheHit(cache, CacheKind(fn), cache_key)
       THEN callers' = [callers EXCEPT ![c] =
                [@ EXCEPT !.pc = "done",
                          !.ret = Returned(LoadAll(fn, cache[CacheKind(fn)][cache_key]))]]
       ELSE callers' = [callers EXCEPT ![c] =
                [@ EXCEPT !.pc = "attempt",
                          !.current_end_date = args.end_date,
                          !.request = BuildRequest(fn, args, args.end_date),
                          !.nreq = 1]]
    /\ UNCHANGED << cache, concFrame >>

\* An attempt answered 429 with attempts left.
ConcRetry(c, resp) ==
    /\ callers[c].pc = "attempt"
    /\ ShouldRetry(resp, callers[c].attempt, DefaultMaxRetries)
    /\ callers' = [callers EXCEPT ![c].attempt = @ + 1]
    /\ UNCHANGED << cache, concFrame >>

\* A status other than 200: the caller's fetch raises.
ConcFail(c, resp) ==
    /\ callers[c].pc = "attempt"
    /\ ~ShouldRetry(resp, callers[c].attempt, DefaultMaxRetries)
    /\ resp.status # StatusOK
    /\ callers' = [callers EXCEPT ![c] =
            [@ EXCEPT !.pc = "done", !.ret = Raised(args.ticker, resp),
                      !.all_items = << >>, !.request = NoRequest, !.attempt = 0]]
    /\ UNCHANGED << cache, concFrame >>

\* A 200 response: one pass of the loop body. The loop goes on with the next
\* request, or is left: with records towards the cache write, with none to
\* `return []`.
ConcPage(c, resp) ==
    LET me   == callers[c]
        step == LoopStep(fn, args, me.all_items, me.current_end_date,
                         ParsePage(fn, resp.items))
    IN  /\ me.pc = "attempt"
        /\ ~ShouldRetry(resp, me.attempt, DefaultMaxRetries)
        /\ resp.status = StatusOK
        /\ ~step.stop => me.nreq < MaxRequests
        /\ callers' = [callers EXCEPT ![c] =
              IF ~step.stop
              THEN [@ EXCEPT !.all_items = step.all, !.current_end_date = step.cur,
                             !.request = BuildRequest(fn, args, step.cur),
                             !.attempt = 0, !.nreq = @ + 1]
              ELSE IF CachesResult(step.all)
                   THEN [@ EXCEPT !.pc = "store", !.all_items = step.all,
                                  !.request = NoRequest, !.attempt = 0]
                   ELSE [@ EXCEPT !.pc = "done", !.ret = Returned(<< >>),
                                  !.request = NoRequest, !.attempt = 0]]
        /\ UNCHANGED << cache, concFrame >>

\* A cache write that adds the caller's records to the entry that is there.
ConcStoreAppends(c) ==
    /\ callers[c].pc = "store"
    /\ cache' = CacheSet(cache, CacheKind(fn), cache_key,
                         (IF CacheHas(cache, CacheKind(fn), cache_key)
                          THEN cache[CacheKind(fn)][cache_key]
                          ELSE << >>) \o DumpAll(callers[c].all_items))
    /\ callers' = [callers EXCEPT ![c] =
            [@ EXCEPT !.pc = "done", !.ret = Returned(callers[c].all_items)]]
    /\ UNCHANGED concFrame

\* _cache.set_...(cache_key, [item.model_dump() for item in all_items]) and
\* the return of all_items.
ConcStore(c) ==
    /\ callers[c].pc = "store"
    /\ cache' = CacheSet(cache, CacheKind(fn), cache_key, DumpAll(callers[c].all_items))
    /\ callers' = [callers EXCEPT ![c] =
            [@ EXCEPT !.pc = "done", !.ret = Returned(callers[c].all_items)]]
    /\ UNCHANGED concFrame

NextConc ==
    \/ \E c \in Callers : ConcCheck(c)
    \/ \E c \in Callers : \E resp \in Responses(fn, dates) : ConcRetry(c, resp)
    \/ \E c \in Callers : \E resp \in Responses(fn, dates) : ConcFail(c, resp)
    \/ \E c \in Callers : \E resp \in Responses(fn, dates) : ConcPage(c, resp)
    \/ \E c \in Callers : ConcStore(c)

SpecConc == InitConc /\ [][NextConc]_vars

\* The callers that fetched from the server and returned their records.
Fetchers ==
    { c \in Callers : /\ callers[c].pc = "done"
                      /\ callers[c].ret.tag = "returned"
                      /\ callers[c].nreq >= 1 }

AllDone == \A c \in Callers : callers[c].pc = "done"

\* C18: at every moment, and so after all callers have finished, the entry
\* under the common key is the whole accumulated result of one caller that
\* fetched it; every cache write replaces the entry by the whole result of the
\* caller that writes, and nothing else in the cache changes.
C18_LastWriteWins ==
    /\ [](CacheHas(cache, CacheKind(fn), cache_key) =>
            \E c \in Fetchers :
               cache[CacheKind(fn)][cache_key] = DumpAll(callers[c].ret.value))
    /\ [](\A k \in CacheKinds : DOMAIN cache[k] \subseteq { cache_key })
    /\ [][cache' # cache =>
            \E c \in Callers :
               /\ callers[c].pc = "store"
               /\ callers'[c].pc = "done"
               /\ cache' = CacheSet(cache, CacheKind(fn), cache_key,
                                    DumpAll(callers'[c].ret.value))]_vars

C18_Witness ==
    /\ AllDone
    /\ Fetchers = Callers
    /\ callers[1].ret.value # callers[2].ret.value
    /\ Len(callers[1].ret.value) >= 2
    /\ callers[2].ret.value # << >>
    /\ cache[CacheKind(fn)][cache_key] = DumpAll(callers[1].ret.value)

(***************************************************************************)
(* Properties of the date window of the paginated fetch.                   *)
(***************************************************************************)
\* a < b on str.
StrLess(a, b) == StrLeq(a, b) /\ a # b

\* The server kept to the window: every record of the page is dated, by its
\* date portion, at or before the upper bound `bound`.
WithinBound(page, bound) ==
    \A i \in DOMAIN page : StrLeq(SplitT(DateField(fn, page[i])), bound)

\* C19: when the first page holds only records dated at or before end_date,
\* the second request carries an upper bound strictly smaller than end_date,
\* the upper bound of the first.
C19_WindowShrinks ==
    (fn \in Collectors /\ pc = "attempt" /\ nreq = 2 /\ Len(pages) = 1
       /\ WithinBound(pages[1], args.end_date)) =>
      \A b \in UpperBounds(request) : StrLess(b, args.end_date)

(***************************************************************************)
(* The paginated fetch against a server that keeps records and answers     *)
(* each request with the newest ones of the requested window.              *)
(***************************************************************************)
\* A server record as the JSON body gives it: the date field and one more
\* field that tells the records of a day apart.
ServerRecord(f, d, i) ==
    IF f = "get_insider_trades"
    THEN [filing_date |-> d, name |-> i]
    ELSE [date |-> d, title |-> i]

RecordDate(f, r) == IF f = "get_insider_trades" THEN r.filing_date ELSE r.date

\* The date columns a server may hold: up to MaxRecords dates, newest first.
DateColumns ==
    { q \in SeqsUpTo(PlainDates, MaxRecords) :
        \A i \in 1..(Len(q) - 1) : StrLeq(q[i + 1], q[i]) }

\* The value of query parameter `name` of a request, None when it has none.
QueryValue(req, name) ==
    LET is == { i \in DOMAIN req.url.query : req.url.query[i].name = name }
    IN  IF is = { } THEN None ELSE req.url.query[CHOOSE i \in is : TRUE].value

\* int(text) for the limits that occur.
ParseLimit(text) == CHOOSE n \in 0..(MaxLimit + 1) : IntToStr(n) = text

\* The answer to a request: the records dated within [lower bound, upper
\* bound], both inclusive, the newest `limit` of them.
ServerAnswer(f, db, req) ==
    LET hi    == QueryValue(req, UpperBoundName(f))
        lo    == QueryValue(req, LowerBoundName(f))
        inWin == SelectSeq(db, LAMBDA r :
                    /\ StrLeq(RecordDate(f, r), hi)
                    /\ lo # None => StrLeq(lo, RecordDate(f, r)))
    IN  [status |-> 200, text |-> StatusText(200),
         items  |-> Slice(inWin, ParseLimit(QueryValue(req, "limit")))]

InitServer ==
    /\ dates = PlainDates
    /\ cache = EmptyCache
    /\ pc = "idle"
    /\ fn = ""
    /\ args = NoArgs
    /\ cache_key = << >>
    /\ all_items = << >>
    /\ current_end_date = None
    /\ request = NoRequest
    /\ max_retries = DefaultMaxRetries
    /\ attempt = 0
    /\ ret = NoRet
    /\ calls = 0
    /\ hit = FALSE
    /\ nreq = 0
    /\ pages = << >>
    /\ writes = << >>
    /\ trace = << >>
    /\ returned = NoResponse
    /\ cacheAtStart = EmptyCache
    /\ prev = NoPrev
    /\ FUTU_AVAILABLE = TRUE
    /\ server \in { [f \in Collectors |->
                       [i \in DOMAIN q |-> ServerRecord(f, q[i], i)]] : q \in DateColumns }
    /\ callers = << >>

\* What the server answers to the request that is out, if one is.
ServerResponses ==
    IF pc = "attempt" /\ fn \in Collectors
    THEN { ServerAnswer(fn, server[fn], request) }
    ELSE { }

NextServer ==
    \/ \E f \in Collectors, a \in ArgSets : FetchFromCache(f, a)
    \/ \E f \in Collectors, a \in ArgSets : FetchBegin(f, a)
    \/ \E resp \in ServerResponses : NextPage(resp)
    \/ \E resp \in ServerResponses : Finish(resp)

SpecServer == InitServer /\ [][NextServer]_vars

\* The server records of the running function dated within [lo, hi].
RecordsWithin(lo, hi) ==
    { server[fn][i] : i \in { j \in DOMAIN server[fn] :
                                /\ StrLeq(lo, RecordDate(fn, server[fn][j]))
                                /\ StrLeq(RecordDate(fn, server[fn][j]), hi) } }

\* C20: a fetch with a start_date that returns, from the server or from the
\* cache, returns every server record dated within [start_date, end_date].
C20_NothingDropped ==
    (fn \in Collectors /\ pc = "idle" /\ ret.tag = "returned"
       /\ Truthy(args.start_date)) =>
      RecordsWithin(args.start_date, args.end_date) \subseteq Range(DumpAll(ret.value))

\* No record occurs twice in the sequence q.
NoRepeats(q) == \A i, j \in DOMAIN q : q[i] = q[j] => i = j

\* C21: the sequence a fetch returns, and the one it caches under its key,
\* hold each server record at most once.
C21_EachRecordOnce ==
    (fn \in Collectors /\ pc = "idle" /\ ret.tag = "returned") =>
      /\ NoRepeats(DumpAll(ret.value))
      /\ CacheHas(cache, CacheKind(fn), cache_key) =>
            NoRepeats(cache[CacheKind(fn)][cache_key])

(***************************************************************************)
(* Alternate-market tickers and the primary API.                           *)
(***************************************************************************)
\* C22: a call of a fetch function of api.py for an alternate-market ticker
\* builds and sends no HTTP request.
C22_NoPrimaryRequest ==
    HkCallOf(HttpFetches) => (nreq = 0 /\ request = NoRequest)

(***************************************************************************)
(* The paginated fetch called with every kind of start_date a caller can   *)
(* pass for `start_date: str | None`: None, a calendar date, the empty     *)
(* text and the text "none".                                               *)
(***************************************************************************)
EmptyText == << >>
NoneWord == << "n", "o", "n", "e" >>

KeyStartDates == { None, EmptyText, NoneWord, D0120 }

KeyArgSets ==
    [ticker : Tickers, start_date : KeyStartDates, end_date : EndDates, limit : Limits]

InitKeys == InitFetch /\ FUTU_AVAILABLE

NextKeys ==
    \/ \E f \in Collectors, a \in KeyArgSets : FetchFromCache(f, a)
    \/ \E f \in Collectors, a \in KeyArgSets : FetchBegin(f, a)
    \/ \E resp \in Responses(fn, dates) : NextPage(resp)
    \/ \E resp \in Responses(fn, dates) : Finish(resp)

SpecKeys == InitKeys /\ [][NextKeys]_vars

\* The key of the call before the one that runs or ran last.
PrevKey ==
    CacheKey(prev.args.ticker, prev.args.start_date, prev.args.end_date, prev.args.limit)

\* C23: two calls of a paginated fetch whose parameters differ compute
\* different keys, and the second call of a run is not answered from the
\* cache when the first call, of the same function, had other parameters.
C23_KeyInjective ==
    /\ (calls >= 2 /\ fn \in Collectors /\ prev.fn \in Collectors /\ prev.args # args) =>
         PrevKey # cache_key
    /\ (calls = 2 /\ fn \in Collectors /\ prev.fn = fn /\ prev.args # args) => ~hit

====
